---- MODULE Spec2Model ----
(***************************************************************************)
(* The database hooks of borgmatic (PostgreSQL, MongoDB, SQLite): the dump *)
(* pass dump_databases and the restore call restore_database_dump, over a  *)
(* filesystem and a process launcher whose every call is logged in order.  *)
(***************************************************************************)
EXTENDS Integers, Sequences, FiniteSets, TLC

VARIABLES
    engine,             \* which hook module runs: "postgresql", "mongodb", "sqlite"
    op,                 \* "dump" (dump_databases) or "restore" (restore_database_dump)
    databases,          \* the configuration sequence (databases / databases_config)
    dry_run,            \* the dry_run argument
    database_name,      \* restore: the requested database name
    extract_process,    \* restore: the extract process (a Popen) or None
    connection_params,  \* restore: the Connection Parameters dict
    pc,                 \* position in the handler: "loop", "names", "done", "raised"
    i,                  \* dump: index of the database entry the loop is at
    names,              \* postgresql dump: resolved names still to dump for entry i
    processes,          \* dump: the list of handles collected so far
    returned,           \* the value returned once pc = "done"
    error,              \* the exception raised once pc = "raised"
    fs,                 \* the filesystem: path -> "fifo" | "file" | "dir"
    effects,            \* every filesystem call and launcher call, in program order
    started,            \* pids of non-blocking dump processes whose shell has opened its output
    list_output         \* postgresql dump: what the last server list query printed

vars == <<engine, op, databases, dry_run, database_name, extract_process,
          connection_params, pc, i, names, processes, returned, error, fs,
          effects, started, list_output>>

----------------------------------------------------------------------------
(* Bounds of the model. *)

\* longest configuration sequence handed to dump_databases
MaxDatabases == 2

----------------------------------------------------------------------------
(* Python values.  Every value is a record of one shape so that values of    *)
(* different Python types can be compared: t is the type, i the number of an *)
(* int / bool / Popen, s the text of a str, l the items of a list.           *)

None == [t |-> "none", i |-> 0, s |-> "", l |-> <<>>]
PyStr(x) == [t |-> "str", i |-> 0, s |-> x, l |-> <<>>]
PyInt(n) == [t |-> "int", i |-> n, s |-> "", l |-> <<>>]
PyBool(b) == [t |-> "bool", i |-> IF b THEN 1 ELSE 0, s |-> "", l |-> <<>>]
PyList(q) == [t |-> "list", i |-> 0, s |-> "", l |-> q]
\* a subprocess.Popen instance; its stdout is the stream of the same pid
Popen(pid) == [t |-> "popen", i |-> pid, s |-> "", l |-> <<>>]
Stream(pid) == [t |-> "stream", i |-> pid, s |-> "", l |-> <<>>]

\* Python truthiness, as `x or y`, `if x` and `not x` use it
Truthy(v) ==
    CASE v.t = "none" -> FALSE
      [] v.t = "str" -> v.s /= ""
      [] v.t = "int" -> v.i /= 0
      [] v.t = "bool" -> v.i /= 0
      [] v.t = "list" -> v.l /= <<>>
      [] OTHER -> TRUE

\* Python `a or b`
Or(a, b) == IF Truthy(a) THEN a ELSE b

Digit(d) ==
    CASE d = 0 -> "0" [] d = 1 -> "1" [] d = 2 -> "2" [] d = 3 -> "3"
      [] d = 4 -> "4" [] d = 5 -> "5" [] d = 6 -> "6" [] d = 7 -> "7"
      [] d = 8 -> "8" [] d = 9 -> "9"

RECURSIVE Decimal(_)
Decimal(n) == IF n < 10 THEN Digit(n) ELSE Decimal(n \div 10) \o Digit(n % 10)

\* Python str(v)
Str(v) ==
    CASE v.t = "none" -> "None"
      [] v.t = "str" -> v.s
      [] v.t = "int" -> Decimal(v.i)
      [] v.t = "bool" -> IF v.i = 0 THEN "False" ELSE "True"
      [] OTHER -> "<object>"

\* a dict is a function from its keys; `k in d` and d.get(k, default)
Has(d, k) == k \in DOMAIN d
Get(d, k, default) == IF k \in DOMAIN d THEN d[k] ELSE default
EmptyDict == [k \in {} |-> ""]

\* text.split(' ')
RECURSIVE SplitFrom(_, _, _)
SplitFrom(text, from, k) ==
    IF k > Len(text) THEN <<SubSeq(text, from, Len(text))>>
    ELSE IF SubSeq(text, k, k) = " "
         THEN <<SubSeq(text, from, k - 1)>> \o SplitFrom(text, k + 1, k + 1)
         ELSE SplitFrom(text, from, k + 1)

Split(text) == SplitFrom(text, 1, 1)

----------------------------------------------------------------------------
(* The dump helpers (borgmatic.hooks.dump) and the filesystem. *)

BorgmaticSourceDirectory == "~/.borgmatic"

\* dump.make_database_dump_path(borgmatic_source_directory, hook name)
make_database_dump_path(source_directory, hook) == source_directory \o "/" \o hook

\* dump.make_database_dump_filename(dump_path, name, hostname=None):
\* <dump path>/<hostname, omitted when there is none>/<database name>
make_database_dump_filename(dump_path, name, hostname) ==
    IF Truthy(hostname)
    THEN dump_path \o "/" \o hostname.s \o "/" \o name
    ELSE dump_path \o "/" \o name

make_dump_path(e) ==
    make_database_dump_path(BorgmaticSourceDirectory,
        CASE e = "postgresql" -> "postgresql_databases"
          [] e = "mongodb" -> "mongodb_databases"
          [] e = "sqlite" -> "sqlite_databases")

\* os.path.dirname
RECURSIVE LastSlash(_, _)
LastSlash(path, k) ==
    IF k = 0 THEN 0
    ELSE IF SubSeq(path, k, k) = "/" THEN k ELSE LastSlash(path, k - 1)

dirname(path) == SubSeq(path, 1, LastSlash(path, Len(path)) - 1)

\* os.path.exists
exists(f, path) == path \in DOMAIN f

\* one logged call: a filesystem call (makedirs, mkfifo, remove) or a launcher call
\* (execute_command, execute_command_and_capture_output, execute_command_with_processes)
NoEnvironment == [given |-> FALSE, vars |-> EmptyDict]
Environment(dict) == [given |-> TRUE, vars |-> dict]

FsCall(name, path) ==
    [call |-> name, path |-> path, command |-> <<>>, shell |-> FALSE,
     extra_environment |-> NoEnvironment, run_to_completion |-> TRUE,
     processes |-> <<>>, input_file |-> None, pid |-> 0, status |-> ""]

\* status: how the launched command ended ("ok", "failed"), "running" for a
\* process started with run_to_completion=False
Launch(name, command, shell, env, to_completion, deps, input, pid, status) ==
    [call |-> name, path |-> "", command |-> command, shell |-> shell,
     extra_environment |-> env, run_to_completion |-> to_completion,
     processes |-> deps, input_file |-> input, pid |-> pid, status |-> status]

ExitStatus(ok) == IF ok THEN "ok" ELSE "failed"

LauncherCalls ==
    {"execute_command", "execute_command_and_capture_output",
     "execute_command_with_processes"}

IsLaunch(e) == e.call \in LauncherCalls

\* the launcher calls made so far, in order
Launches(log) == SelectSeq(log, IsLaunch)

\* the pid the next launched process gets
NextPid(log) == Len(Launches(log)) + 1

\* dump.create_parent_directory_for_dump: makedirs(dirname(path), exist_ok=True)
ParentDirectoryCreated(f, path) == (dirname(path) :> "dir") @@ f

\* dump.create_named_pipe_for_dump: the parent directory, then mkfifo(path);
\* mkfifo fails with FileExistsError on a path that exists
NamedPipeCreated(f, path) == (path :> "fifo") @@ ParentDirectoryCreated(f, path)

----------------------------------------------------------------------------
(* PostgreSQL: environment, name resolution, dump command. *)

\* make_extra_environment(database, restore_connection_params): a dict with no
\* keys stands for both None and {} (both are falsy).  The default argument
\* database['password'] is evaluated before .get() is called, so a missing
\* 'password' key raises KeyError, which the except clause swallows: PGPASSWORD
\* is then left unset.
PgPassword(database, restore_connection_params) ==
    IF DOMAIN restore_connection_params /= {}
    THEN IF Truthy(Get(restore_connection_params, "password", None))
         THEN ("PGPASSWORD" :> restore_connection_params["password"])
         ELSE IF ~Has(database, "password")
              THEN EmptyDict
              ELSE ("PGPASSWORD" :> Get(database, "restore_password", database["password"]))
    ELSE IF Has(database, "password")
         THEN ("PGPASSWORD" :> database["password"])
         ELSE EmptyDict

PgSslKey(database, key, variable) ==
    IF Has(database, key) THEN (variable :> database[key]) ELSE EmptyDict

make_extra_environment(database, restore_connection_params) ==
    PgPassword(database, restore_connection_params)
    @@ ("PGSSLMODE" :> Get(database, "ssl_mode", PyStr("disable")))
    @@ PgSslKey(database, "ssl_cert", "PGSSLCERT")
    @@ PgSslKey(database, "ssl_key", "PGSSLKEY")
    @@ PgSslKey(database, "ssl_root_cert", "PGSSLROOTCERT")
    @@ PgSslKey(database, "ssl_crl", "PGSSLCRL")

EXCLUDED_DATABASE_NAMES == {"template0", "template1"}

\* list_output.splitlines()
RECURSIVE SplitLinesFrom(_, _, _)
SplitLinesFrom(text, from, k) ==
    IF k > Len(text)
    THEN IF from > Len(text) THEN <<>> ELSE <<SubSeq(text, from, Len(text))>>
    ELSE IF SubSeq(text, k, k) = "\n"
         THEN <<SubSeq(text, from, k - 1)>> \o SplitLinesFrom(text, k + 1, k + 1)
         ELSE SplitLinesFrom(text, from, k + 1)

splitlines(text) == SplitLinesFrom(text, 1, 1)

\* csv.reader on one line, delimiter ',' and quotechar '"': the fields of the
\* row; an empty line is the empty row
RECURSIVE CsvScan(_, _, _, _)
CsvScan(line, k, field, quoted) ==
    IF k > Len(line) THEN <<field>>
    ELSE LET c == SubSeq(line, k, k) IN
         IF quoted
         THEN IF c = "\""
              THEN IF k < Len(line) /\ SubSeq(line, k + 1, k + 1) = "\""
                   THEN CsvScan(line, k + 2, field \o "\"", TRUE)
                   ELSE CsvScan(line, k + 1, field, FALSE)
              ELSE CsvScan(line, k + 1, field \o c, TRUE)
         ELSE IF c = ","
              THEN <<field>> \o CsvScan(line, k + 1, "", FALSE)
              ELSE IF c = "\"" /\ field = ""
                   THEN CsvScan(line, k + 1, field, TRUE)
                   ELSE CsvScan(line, k + 1, field \o c, FALSE)

CsvRow(line) == IF line = "" THEN <<>> ELSE CsvScan(line, 1, "", FALSE)

\* csv.reader over the lines: one row per line, as no quoted field of the
\* outputs drawn here runs over a line end
CsvRows(text) == [k \in 1..Len(splitlines(text)) |-> CsvRow(splitlines(text)[k])]

\* shlex.split(database.get(key) or default): the configured commands of the
\* model hold no quoting, so the words are those between the spaces
CommandWords(database, key, default) == Split(Or(Get(database, key, None), PyStr(default)).s)

\* the tuple (flag, value) when the key is in the database dict
FlagIfIn(database, key, flag) ==
    IF Has(database, key) THEN <<flag, Str(database[key])>> ELSE <<>>

\* tuple(database[key].split(' ')) when the key is in the database dict
OptionsIfIn(database, key) ==
    IF Has(database, key) THEN Split(database[key].s) ELSE <<>>

\* mutant: the list query is made on a dry run too
PgQueriesServerOnDryRun(database, dry) ==
    /\ database["name"] = PyStr("all")
    /\ Truthy(Get(database, "format", None))

\* database_names_to_dump: whether it has to query the server
PgQueriesServer(database, dry) ==
    /\ database["name"] = PyStr("all")
    /\ Truthy(Get(database, "format", None))
    /\ ~dry

list_command(database) ==
    CommandWords(database, "psql_command", "psql")
    \o <<"--list", "--no-password", "--no-psqlrc", "--csv", "--tuples-only">>
    \o FlagIfIn(database, "hostname", "--host")
    \o FlagIfIn(database, "port", "--port")
    \o FlagIfIn(database, "username", "--username")
    \o OptionsIfIn(database, "list_options")

\* row[0] of an empty row raises IndexError
ListHasEmptyRow(output) == \E k \in 1..Len(CsvRows(output)) : CsvRows(output)[k] = <<>>

\* mutant: only the first of the excluded names is compared
IsDumpableRowButTemplate0(row) == row[1] /= "template0"

IsDumpableRow(row) == row[1] \notin EXCLUDED_DATABASE_NAMES

FirstColumn(rows) == [k \in 1..Len(rows) |-> rows[k][1]]

\* mutant: the dry-run test comes first, ahead of the tests of name and format
database_names_to_dump_dry_run_first(database, dry, output) ==
    IF dry THEN <<>>
    ELSE IF database["name"] /= PyStr("all") THEN <<database["name"].s>>
    ELSE IF ~Truthy(Get(database, "format", None)) THEN <<"all">>
    ELSE FirstColumn(SelectSeq(CsvRows(output), IsDumpableRow))

\* database_names_to_dump(database, extra_environment, log_prefix, dry_run), given
\* what the list query prints if it is made
database_names_to_dump(database, dry, output) ==
    IF database["name"] /= PyStr("all") THEN <<database["name"].s>>
    ELSE IF ~Truthy(Get(database, "format", None)) THEN <<"all">>
    ELSE IF dry THEN <<>>
    ELSE FirstColumn(SelectSeq(CsvRows(output), IsDumpableRow))

\* dump_databases: the format of one dump
PgDumpFormat(database, name) ==
    Get(database, "format", IF name = "all" THEN None ELSE PyStr("custom"))

PgDumpFilename(database, name) ==
    make_database_dump_filename(make_dump_path("postgresql"), name,
                                Get(database, "hostname", None))

\* mutant: the redirection is appended whatever the format
PgDumpCommandAlwaysRedirects(database, name) ==
    LET dump_format == PgDumpFormat(database, name)
        default_dump_command == IF name = "all" THEN "pg_dumpall" ELSE "pg_dump"
        dump_command == Or(Get(database, "pg_dump_command", None), PyStr(default_dump_command)).s
        dump_filename == PgDumpFilename(database, name)
    IN  <<dump_command, "--no-password", "--clean", "--if-exists">>
        \o FlagIfIn(database, "hostname", "--host")
        \o FlagIfIn(database, "port", "--port")
        \o FlagIfIn(database, "username", "--username")
        \o (IF Truthy(Get(database, "no_owner", PyBool(FALSE))) THEN <<"--no-owner">> ELSE <<>>)
        \o (IF Truthy(dump_format) THEN <<"--format", dump_format.s>> ELSE <<>>)
        \o (IF dump_format = PyStr("directory") THEN <<"--file", dump_filename>> ELSE <<>>)
        \o OptionsIfIn(database, "options")
        \o (IF name = "all" THEN <<>> ELSE <<name>>)
        \o <<">", dump_filename>>

\* dump_databases: the command of one dump
PgDumpCommand(database, name) ==
    LET dump_format == PgDumpFormat(database, name)
        default_dump_command == IF name = "all" THEN "pg_dumpall" ELSE "pg_dump"
        dump_command == Or(Get(database, "pg_dump_command", None), PyStr(default_dump_command)).s
        dump_filename == PgDumpFilename(database, name)
    IN  <<dump_command, "--no-password", "--clean", "--if-exists">>
        \o FlagIfIn(database, "hostname", "--host")
        \o FlagIfIn(database, "port", "--port")
        \o FlagIfIn(database, "username", "--username")
        \o (IF Truthy(Get(database, "no_owner", PyBool(FALSE))) THEN <<"--no-owner">> ELSE <<>>)
        \o (IF Truthy(dump_format) THEN <<"--format", dump_format.s>> ELSE <<>>)
        \o (IF dump_format = PyStr("directory") THEN <<"--file", dump_filename>> ELSE <<>>)
        \o OptionsIfIn(database, "options")
        \o (IF name = "all" THEN <<>> ELSE <<name>>)
        \o (IF dump_format /= PyStr("directory") THEN <<">", dump_filename>> ELSE <<>>)

----------------------------------------------------------------------------
(* MongoDB and SQLite: dump commands. *)

MongoDumpFormat(database) == Get(database, "format", PyStr("archive"))

MongoDumpFilename(database) ==
    make_database_dump_filename(make_dump_path("mongodb"), database["name"].s,
                                Get(database, "hostname", None))

\* mutant: --db is given for "all" as well
build_dump_command_db_always(database, dump_filename, dump_format) ==
    <<"mongodump">>
    \o (IF dump_format = PyStr("directory") THEN <<"--out", dump_filename>> ELSE <<>>)
    \o FlagIfIn(database, "hostname", "--host")
    \o FlagIfIn(database, "port", "--port")
    \o FlagIfIn(database, "username", "--username")
    \o FlagIfIn(database, "password", "--password")
    \o FlagIfIn(database, "authentication_database", "--authenticationDatabase")
    \o <<"--db", database["name"].s>>
    \o OptionsIfIn(database, "options")
    \o (IF dump_format /= PyStr("directory") THEN <<"--archive", ">", dump_filename>> ELSE <<>>)

build_dump_command(database, dump_filename, dump_format) ==
    <<"mongodump">>
    \o (IF dump_format = PyStr("directory") THEN <<"--out", dump_filename>> ELSE <<>>)
    \o FlagIfIn(database, "hostname", "--host")
    \o FlagIfIn(database, "port", "--port")
    \o FlagIfIn(database, "username", "--username")
    \o FlagIfIn(database, "password", "--password")
    \o FlagIfIn(database, "authentication_database", "--authenticationDatabase")
    \o (IF database["name"] /= PyStr("all") THEN <<"--db", database["name"].s>> ELSE <<>>)
    \o OptionsIfIn(database, "options")
    \o (IF dump_format /= PyStr("directory") THEN <<"--archive", ">", dump_filename>> ELSE <<>>)

SqliteDumpFilename(database) ==
    make_database_dump_filename(make_dump_path("sqlite"), database["name"].s, None)

SqliteDumpCommand(database) ==
    <<"sqlite3", database["path"].s, ".dump", ">", SqliteDumpFilename(database)>>

----------------------------------------------------------------------------
(* The configurations and inputs the model draws from. *)

Field(key, value) == (key :> value)
FieldIf(cond, key, value) == IF cond THEN (key :> value) ELSE EmptyDict

\* the connection and option fields of a fully configured server entry
ServerFields ==
    Field("hostname", PyStr("db1")) @@ Field("port", PyInt(5432))
    @@ Field("username", PyStr("u")) @@ Field("password", PyStr("pw"))
    @@ Field("options", PyStr("--x --y")) @@ Field("no_owner", PyBool(TRUE))

PgDumpConfigs ==
    { Field("name", PyStr(n)) @@ FieldIf(f /= "", "format", PyStr(f))
        @@ (IF full THEN ServerFields ELSE EmptyDict)
      : n \in {"app", "all"}, f \in {"", "directory", "custom"}, full \in BOOLEAN }

MongoDumpConfigs ==
    { Field("name", PyStr(n)) @@ FieldIf(f /= "", "format", PyStr(f))
        @@ (IF full THEN ServerFields @@ Field("authentication_database", PyStr("admin"))
            ELSE EmptyDict)
      : n \in {"app", "all"}, f \in {"", "directory"}, full \in BOOLEAN }

SqliteDumpConfigs ==
    { Field("name", PyStr(n)) @@ Field("path", PyStr(p))
      : n \in {"app", "metrics", "all"}, p \in {"/var/app.db", "/var/metrics.db"} }

DumpConfigs(e) ==
    CASE e = "postgresql" -> PgDumpConfigs
      [] e = "mongodb" -> MongoDumpConfigs
      [] e = "sqlite" -> SqliteDumpConfigs

\* what `psql --list --csv --tuples-only` may print
ListOutputs ==
    { "",
      "template0,postgres,UTF8\ntemplate1,postgres,UTF8",
      "template0,postgres,UTF8\napp,postgres,UTF8\ntemplate1,postgres,UTF8\nmetrics,u,UTF8" }

SeqsUpTo(S, n) == UNION { [1..k -> S] : k \in 0..n }

\* the artifact one configuration entry dumps to when its name is dumped as such
EntryDumpFilename(e, database) ==
    CASE e = "postgresql" -> PgDumpFilename(database, database["name"].s)
      [] e = "mongodb" -> MongoDumpFilename(database)
      [] e = "sqlite" -> SqliteDumpFilename(database)

\* what a previous run left at that path: a directory for the directory
\* format, a named pipe for the streamed formats, a file for SQLite
LeftoverKind(e, database) ==
    IF e = "sqlite" THEN "file"
    ELSE IF Get(database, "format", None) = PyStr("directory") THEN "dir" ELSE "fifo"

\* the filesystems a dump pass may start from: no artifact, or the artifact of
\* one of the entries left over
DumpFilesystems(e, dbs) ==
    {EmptyDict} \cup
    { (EntryDumpFilename(e, dbs[k]) :> LeftoverKind(e, dbs[k])) : k \in 1..Len(dbs) }

Engines == {"postgresql", "mongodb", "sqlite"}

InitDump ==
    /\ op = "dump"
    /\ engine \in Engines
    /\ databases \in SeqsUpTo(DumpConfigs(engine), MaxDatabases)
    /\ dry_run \in BOOLEAN
    /\ fs \in DumpFilesystems(engine, databases)
    /\ database_name = ""
    /\ extract_process = None
    /\ connection_params = EmptyDict
    /\ pc = "loop"
    /\ i = 1
    /\ names = <<>>
    /\ processes = <<>>
    /\ returned = None
    /\ error = ""
    /\ effects = <<>>
    /\ started = {}
    /\ list_output = ""

----------------------------------------------------------------------------
(* dump_databases, one step per loop iteration: the dump processes started  *)
(* non-blocking run concurrently with the rest of the loop.                 *)

Inputs == <<engine, op, databases, dry_run, database_name, extract_process, connection_params>>

\* execute_command(command, shell=True, extra_environment=env): runs to completion
RunDump(command, env, pid, ok) ==
    Launch("execute_command", command, TRUE, env, TRUE, <<>>, None, pid, ExitStatus(ok))

\* mutant: run_to_completion is left at its default
StartDumpBlocking(command, env, pid) ==
    Launch("execute_command", command, TRUE, env, TRUE, <<>>, None, pid, "ok")

\* execute_command(command, shell=True, extra_environment=env, run_to_completion=False)
StartDump(command, env, pid) ==
    Launch("execute_command", command, TRUE, env, FALSE, <<>>, None, pid, "running")

\* create_parent_directory_for_dump, then the dump command run to completion
DirectoryDumpCalls(dump_filename, command, env, pid, ok) ==
    <<FsCall("makedirs", dirname(dump_filename)), RunDump(command, env, pid, ok)>>

\* mutant: the dump command is started before its named pipe is made
StreamingDumpCallsPipeLast(dump_filename, command, env, pid) ==
    <<StartDump(command, env, pid), FsCall("makedirs", dirname(dump_filename)),
      FsCall("mkfifo", dump_filename)>>

\* create_named_pipe_for_dump, then the dump command started non-blocking
StreamingDumpCalls(dump_filename, command, env, pid) ==
    <<FsCall("makedirs", dirname(dump_filename)), FsCall("mkfifo", dump_filename),
      StartDump(command, env, pid)>>

\* sqlite: create_parent_directory_for_dump, then the dump command started
\* non-blocking; the shell's redirection creates the artifact file
SqliteDumpCalls(dump_filename, command, pid) ==
    <<FsCall("makedirs", dirname(dump_filename)), StartDump(command, NoEnvironment, pid)>>

\* postgresql dump_databases, lines 132-136 and 162-163: `continue` without
\* dumping when the artifact exists or this is a dry run
PgSkips(f, dump_filename, dry) == exists(f, dump_filename) \/ dry

\* mongodb dump_databases, lines 42-43: `continue` on a dry run; the artifact's
\* existence is not looked at
MongoSkips(f, dump_filename, dry) == dry

\* sqlite dump_databases, lines 43-47 and 59-60
SqliteSkips(f, dump_filename, dry) == exists(f, dump_filename) \/ dry

\* mutant: the dry-run `continue` is missing, an empty resolution always raises
PgEmptyResolutionRaisesOnDryRun(found, dry) == found = <<>>

\* postgresql dump_databases, lines 119-123: no name resolved raises, unless
\* this is a dry run
PgEmptyResolutionRaises(found, dry) == found = <<>> /\ ~dry

\* what the ValueError of line 123 says
NoDatabasesError == "ValueError: Cannot find any PostgreSQL databases to dump."

\* postgresql dump_databases, lines 113-123: the names to dump for entry i
PgResolveNames ==
    /\ op = "dump" /\ engine = "postgresql"
    /\ pc = "loop" /\ i <= Len(databases)
    /\ LET database == databases[i]
           extra_environment == Environment(make_extra_environment(database, EmptyDict))
       IN  \E ok \in BOOLEAN, output \in ListOutputs :
             LET queried == PgQueriesServer(database, dry_run)
                 found == database_names_to_dump(database, dry_run, output)
                 query == Launch("execute_command_and_capture_output",
                                 list_command(database), FALSE, extra_environment, TRUE,
                                 <<>>, None, NextPid(effects), ExitStatus(ok))
             IN  /\ queried \/ (ok /\ output = "")
                 /\ effects' = IF queried THEN Append(effects, query) ELSE effects
                 /\ list_output' = IF queried /\ ok THEN output ELSE list_output
                 /\ IF queried /\ ~ok
                    THEN /\ pc' = "raised" /\ error' = "CalledProcessError"
                         /\ UNCHANGED <<i, names>>
                    ELSE IF queried /\ ListHasEmptyRow(output)
                    THEN /\ pc' = "raised" /\ error' = "IndexError"
                         /\ UNCHANGED <<i, names>>
                    ELSE IF found = <<>>
                    THEN IF PgEmptyResolutionRaises(found, dry_run)
                         THEN /\ pc' = "raised"
                              /\ error' = NoDatabasesError
                              /\ UNCHANGED <<i, names>>
                         ELSE /\ i' = i + 1
                              /\ UNCHANGED <<pc, error, names>>
                    ELSE /\ pc' = "names" /\ names' = found
                         /\ UNCHANGED <<i, error>>
    /\ UNCHANGED <<Inputs, processes, returned, fs, started>>

\* postgresql dump_databases, lines 125-181: one resolved name of entry i
PgDumpName ==
    /\ op = "dump" /\ engine = "postgresql"
    /\ pc = "names" /\ names /= <<>>
    /\ LET database == databases[i]
           database_name_ == Head(names)
           extra_environment == Environment(make_extra_environment(database, EmptyDict))
           dump_format == PgDumpFormat(database, database_name_)
           dump_filename == PgDumpFilename(database, database_name_)
           command == PgDumpCommand(database, database_name_)
           Continue == /\ names' = Tail(names)
                       /\ IF Tail(names) = <<>>
                          THEN pc' = "loop" /\ i' = i + 1
                          ELSE UNCHANGED <<pc, i>>
                       /\ UNCHANGED error
       IN  IF PgSkips(fs, dump_filename, dry_run)
           THEN Continue /\ UNCHANGED <<fs, effects, processes>>
           ELSE IF dump_format = PyStr("directory")
           THEN \E ok \in BOOLEAN :
                  /\ effects' = effects \o DirectoryDumpCalls(dump_filename, command,
                                        extra_environment, NextPid(effects), ok)
                  /\ UNCHANGED processes
                  /\ IF ok
                     THEN /\ fs' = (dump_filename :> "dir") @@ ParentDirectoryCreated(fs, dump_filename)
                          /\ Continue
                     ELSE /\ fs' = ParentDirectoryCreated(fs, dump_filename)
                          /\ pc' = "raised" /\ error' = "CalledProcessError"
                          /\ UNCHANGED <<i, names>>
           ELSE /\ effects' = effects \o StreamingDumpCalls(dump_filename, command,
                                      extra_environment, NextPid(effects))
                /\ fs' = NamedPipeCreated(fs, dump_filename)
                /\ processes' = Append(processes, Popen(NextPid(effects)))
                /\ Continue
    /\ UNCHANGED <<Inputs, returned, started, list_output>>

\* mongodb dump_databases, lines 32-52: entry i
MongoDumpDatabase ==
    /\ op = "dump" /\ engine = "mongodb"
    /\ pc = "loop" /\ i <= Len(databases)
    /\ LET database == databases[i]
           dump_filename == MongoDumpFilename(database)
           dump_format == MongoDumpFormat(database)
           command == build_dump_command(database, dump_filename, dump_format)
           Continue == i' = i + 1 /\ UNCHANGED <<pc, error>>
       IN  IF MongoSkips(fs, dump_filename, dry_run)
           THEN Continue /\ UNCHANGED <<fs, effects, processes>>
           ELSE IF dump_format = PyStr("directory")
           THEN \E ok \in BOOLEAN :
                  /\ effects' = effects \o DirectoryDumpCalls(dump_filename, command,
                                        NoEnvironment, NextPid(effects), ok)
                  /\ UNCHANGED processes
                  /\ IF ok
                     THEN /\ fs' = (dump_filename :> "dir") @@ ParentDirectoryCreated(fs, dump_filename)
                          /\ Continue
                     ELSE /\ fs' = ParentDirectoryCreated(fs, dump_filename)
                          /\ pc' = "raised" /\ error' = "CalledProcessError"
                          /\ UNCHANGED i
           ELSE IF exists(fs, dump_filename)
           THEN /\ effects' = Append(effects, FsCall("makedirs", dirname(dump_filename)))
                /\ fs' = ParentDirectoryCreated(fs, dump_filename)
                /\ pc' = "raised" /\ error' = "FileExistsError"
                /\ UNCHANGED <<i, processes>>
           ELSE /\ effects' = effects \o StreamingDumpCalls(dump_filename, command,
                                      NoEnvironment, NextPid(effects))
                /\ fs' = NamedPipeCreated(fs, dump_filename)
                /\ processes' = Append(processes, Popen(NextPid(effects)))
                /\ Continue
    /\ UNCHANGED <<Inputs, names, returned, started, list_output>>

\* sqlite dump_databases, lines 31-63: entry i
SqliteDumpDatabase ==
    /\ op = "dump" /\ engine = "sqlite"
    /\ pc = "loop" /\ i <= Len(databases)
    /\ LET database == databases[i]
           dump_filename == SqliteDumpFilename(database)
           command == SqliteDumpCommand(database)
       IN  IF SqliteSkips(fs, dump_filename, dry_run)
           THEN UNCHANGED <<fs, effects, processes>>
           ELSE /\ effects' = effects \o SqliteDumpCalls(dump_filename, command,
                                                           NextPid(effects))
                /\ fs' = ParentDirectoryCreated(fs, dump_filename)
                /\ processes' = Append(processes, Popen(NextPid(effects)))
    /\ i' = i + 1
    /\ UNCHANGED <<Inputs, pc, error, names, returned, started, list_output>>

\* `return processes`, all three engines
DumpReturn ==
    /\ op = "dump"
    /\ pc = "loop" /\ i > Len(databases)
    /\ pc' = "done"
    /\ returned' = PyList(processes)
    /\ UNCHANGED <<Inputs, i, names, processes, error, fs, effects, started, list_output>>

\* the file a dump command's shell redirection writes to
RedirectTarget(command) == command[Len(command)]

IsStreamingDump(e) == e.call = "execute_command" /\ ~e.run_to_completion

\* A dump process started non-blocking gets to run: its shell opens the target
\* of the `>` redirection, which creates a regular file when nothing is there
\* (sqlite) and attaches to the named pipe when there is one.
ShellOpensOutput ==
    /\ op = "dump"
    /\ \E k \in 1..Len(effects) :
         /\ IsStreamingDump(effects[k])
         /\ effects[k].pid \notin started
         /\ started' = started \cup {effects[k].pid}
         /\ fs' = IF exists(fs, RedirectTarget(effects[k].command))
                  THEN fs
                  ELSE (RedirectTarget(effects[k].command) :> "file") @@ fs
    /\ UNCHANGED <<Inputs, pc, i, names, processes, returned, error, effects, list_output>>

NextDump ==
    \/ PgResolveNames
    \/ PgDumpName
    \/ MongoDumpDatabase
    \/ SqliteDumpDatabase
    \/ DumpReturn
    \/ ShellOpensOutput

SpecDump == InitDump /\ [][NextDump]_vars

----------------------------------------------------------------------------
(* restore_database_dump: finding the entry and building the commands. *)

\* next(database_config for database_config in databases_config
\*      if database_config.get('name') == database_name): the index of the first
\* entry of that name, 0 when there is none (StopIteration)
RECURSIVE FindFrom(_, _, _)
FindFrom(dbs, name, k) ==
    IF k > Len(dbs) THEN 0
    ELSE IF Get(dbs[k], "name", None) = PyStr(name) THEN k
    ELSE FindFrom(dbs, name, k + 1)

\* mutant: the name is not compared, the last entry is taken
FindDatabaseAnyName(dbs, name) == Len(dbs)

FindDatabase(dbs, name) == FindFrom(dbs, name, 1)

NotFoundError(name) ==
    "ValueError: A database named \"" \o name \o "\" could not be found in the configuration"

\* mutant: the configuration's fields win over the Connection Parameters
RestoreHostnameConfigFirst(database, params) ==
    Or(Get(database, "restore_hostname", Get(database, "hostname", None)), params["hostname"])

\* connection_params[key] or database.get('restore_' + key, database.get(key))
RestoreHostname(database, params) ==
    Or(params["hostname"], Get(database, "restore_hostname", Get(database, "hostname", None)))

\* str(connection_params['port'] or database.get('restore_port', database.get('port', '')))
RestorePort(database, params) ==
    Str(Or(params["port"], Get(database, "restore_port", Get(database, "port", PyStr("")))))

RestoreUsername(database, params) ==
    Or(params["username"], Get(database, "restore_username", Get(database, "username", None)))

\* mongodb build_restore_command, lines 158-160
MongoRestorePassword(database, params) ==
    Or(params["password"], Get(database, "restore_password", Get(database, "password", None)))

\* sqlite restore_database_dump, lines 109-111
SqliteRestorePath(database, params) ==
    Or(params["restore_path"], Get(database, "restore_path", Get(database, "path", None)))

\* (flag, value) if value else ()
FlagIf(value, flag) == IF Truthy(value) THEN <<flag, Str(value)>> ELSE <<>>

\* ('--schema', schema) for each of the schemas, chained
RECURSIVE FlagEach(_, _)
FlagEach(flag, items) ==
    IF items = <<>> THEN <<>>
    ELSE <<flag, Head(items)>> \o FlagEach(flag, Tail(items))

\* postgresql restore_database_dump, lines 247-256
PgAnalyzeCommand(database, params) ==
    CommandWords(database, "psql_command", "psql")
    \o <<"--no-password", "--no-psqlrc", "--quiet">>
    \o FlagIf(RestoreHostname(database, params), "--host")
    \o FlagIf(PyStr(RestorePort(database, params)), "--port")
    \o FlagIf(RestoreUsername(database, params), "--username")
    \o (IF database["name"] /= PyStr("all") THEN <<"--dbname", database["name"].s>> ELSE <<>>)
    \o OptionsIfIn(database, "analyze_options")
    \o <<"--command", "ANALYZE">>

\* restore_database_dump (postgresql lines 243-245, mongodb lines 126-128): the
\* dump artifact of the entry, from its name and its dump-time hostname
RestoreDumpFilename(e, database) ==
    make_database_dump_filename(make_dump_path(e), database["name"].s,
                                Get(database, "hostname", None))

\* mutant: the dump file is named with an extract process too
RestoreSourceAlwaysFile(extract, dump_filename) == <<dump_filename>>

\* postgresql restore_database_dump, line 269: the dump file is an argument
\* only when there is no extract process to read from
RestoreSource(extract, dump_filename) ==
    IF Truthy(extract) THEN <<>> ELSE <<dump_filename>>

\* postgresql restore_database_dump, lines 257-275
PgRestoreCommand(database, params, extract) ==
    LET all_databases == database["name"] = PyStr("all")
        use_psql_command == all_databases \/ Get(database, "format", None) = PyStr("plain")
        dump_filename == RestoreDumpFilename("postgresql", database)
    IN  (IF use_psql_command
         THEN CommandWords(database, "psql_command", "psql")
         ELSE CommandWords(database, "pg_restore_command", "pg_restore"))
        \o <<"--no-password">>
        \o (IF use_psql_command THEN <<"--no-psqlrc">>
            ELSE <<"--if-exists", "--exit-on-error", "--clean">>)
        \o (IF ~all_databases THEN <<"--dbname", database["name"].s>> ELSE <<>>)
        \o FlagIf(RestoreHostname(database, params), "--host")
        \o FlagIf(PyStr(RestorePort(database, params)), "--port")
        \o FlagIf(RestoreUsername(database, params), "--username")
        \o (IF Truthy(Get(database, "no_owner", PyBool(FALSE))) THEN <<"--no-owner">> ELSE <<>>)
        \o OptionsIfIn(database, "restore_options")
        \o RestoreSource(extract, dump_filename)
        \o (IF Truthy(Get(database, "schemas", None))
            THEN FlagEach("--schema", database["schemas"].l) ELSE <<>>)

\* mongodb build_restore_command: database['schemas'] raises KeyError when the
\* key is missing
MongoRestoreRaises(database) == ~Has(database, "schemas")

build_restore_command(extract, database, dump_filename, params) ==
    <<"mongorestore">>
    \o (IF Truthy(extract) THEN <<"--archive">> ELSE <<"--dir", dump_filename>>)
    \o (IF database["name"] /= PyStr("all")
        THEN <<"--drop", "--db", database["name"].s>> ELSE <<>>)
    \o FlagIf(RestoreHostname(database, params), "--host")
    \o FlagIf(PyStr(RestorePort(database, params)), "--port")
    \o FlagIf(RestoreUsername(database, params), "--username")
    \o FlagIf(MongoRestorePassword(database, params), "--password")
    \o FlagIfIn(database, "authentication_database", "--authenticationDatabase")
    \o OptionsIfIn(database, "restore_options")
    \o (IF Truthy(database["schemas"])
        THEN FlagEach("--nsInclude", database["schemas"].l) ELSE <<>>)

\* mutant: [extract_process] whatever it is
DependenciesUnguarded(extract) == <<extract>>

\* [extract_process] if extract_process else []
Dependencies(extract) == IF Truthy(extract) THEN <<extract>> ELSE <<>>

\* extract_process.stdout if extract_process else None
InputFile(extract) == IF Truthy(extract) THEN Stream(extract.i) ELSE None

----------------------------------------------------------------------------
(* The restore inputs the model draws from. *)

\* which of the two configuration sources of a connection value are present
Sources == SUBSET {"restore", "dump"}

ConnectionFields(present) ==
    (IF "dump" \in present
     THEN Field("hostname", PyStr("db1")) @@ Field("port", PyInt(5432))
          @@ Field("username", PyStr("u"))
     ELSE EmptyDict)
    @@ (IF "restore" \in present
        THEN Field("restore_hostname", PyStr("rdb")) @@ Field("restore_port", PyInt(5433))
             @@ Field("restore_username", PyStr("ru"))
        ELSE EmptyDict)

PasswordFields(present) ==
    FieldIf("dump" \in present, "password", PyStr("pw"))
    @@ FieldIf("restore" \in present, "restore_password", PyStr("rpw"))

\* the optional restore fields: none of them, 'schemas' set to None (as the
\* restore action passes it when no schema was asked for), or all of them
Flavors == {"bare", "plain", "full"}

OptionFields(flavor) ==
    CASE flavor = "bare" -> EmptyDict
      [] flavor = "plain" -> Field("schemas", None)
      [] flavor = "full" ->
            Field("schemas", PyList(<<"public", "audit">>))
            @@ Field("restore_options", PyStr("--a --b"))
            @@ Field("analyze_options", PyStr("--verbose"))
            @@ Field("no_owner", PyBool(TRUE))
            @@ Field("authentication_database", PyStr("admin"))

PgRestoreConfigs ==
    { Field("name", PyStr(nf[1])) @@ FieldIf(nf[2] /= "", "format", PyStr(nf[2]))
        @@ ConnectionFields(c) @@ PasswordFields(pw) @@ OptionFields(fl)
      : nf \in {<<"app", "">>, <<"app", "plain">>, <<"all", "">>},
        c \in Sources, pw \in Sources, fl \in Flavors }

MongoRestoreConfigs ==
    { Field("name", PyStr(n)) @@ ConnectionFields(c) @@ PasswordFields(pw) @@ OptionFields(fl)
      : n \in {"app", "all"}, c \in Sources, pw \in Sources, fl \in Flavors }

SqliteRestoreConfigs ==
    { Field("name", PyStr(n)) @@ Field("path", PyStr("/var/app.db"))
        @@ FieldIf(r, "restore_path", PyStr("/restore/app.db"))
      : n \in {"app", "all"}, r \in BOOLEAN }

RestoreConfigs(e) ==
    CASE e = "postgresql" -> PgRestoreConfigs
      [] e = "mongodb" -> MongoRestoreConfigs
      [] e = "sqlite" -> SqliteRestoreConfigs

\* the Connection Parameters: every key is there, unset ones are None
ConnectionParams(e) ==
    { Field("hostname", IF c THEN PyStr("cdb") ELSE None)
        @@ Field("port", IF c THEN PyInt(5434) ELSE None)
        @@ Field("username", IF c THEN PyStr("cu") ELSE None)
        @@ Field("password", IF pw THEN PyStr("cpw") ELSE None)
        @@ Field("restore_path", IF rp THEN PyStr("/restore/cli.db") ELSE None)
      : c \in (IF e = "sqlite" THEN {FALSE} ELSE BOOLEAN),
        pw \in (IF e = "sqlite" THEN {FALSE} ELSE BOOLEAN),
        rp \in (IF e = "sqlite" THEN BOOLEAN ELSE {FALSE}) }

\* an entry of another name ahead of the one looked for
OtherDatabase == Field("name", PyStr("other")) @@ Field("path", PyStr("/var/other.db"))
                 @@ Field("schemas", None)

\* the borg extract process the caller started, or None
ExtractProcesses == {None, Popen(99)}

\* the SQLite database files that may be there before a restore
RestoreFilesystems ==
    { EmptyDict,
      ("/var/app.db" :> "file") @@ ("/restore/app.db" :> "file") @@ ("/restore/cli.db" :> "file") }

InitRestore ==
    /\ op = "restore"
    /\ engine \in Engines
    /\ \E database \in RestoreConfigs(engine) :
         /\ databases \in {<<database>>, <<OtherDatabase, database>>}
         /\ database_name \in {database["name"].s, "missing"}
    /\ dry_run \in BOOLEAN
    /\ extract_process \in ExtractProcesses
    /\ connection_params \in ConnectionParams(engine)
    /\ fs \in (IF engine = "sqlite" THEN RestoreFilesystems ELSE {EmptyDict})
    /\ pc = "call"
    /\ i = 1
    /\ names = <<>>
    /\ processes = <<>>
    /\ returned = None
    /\ error = ""
    /\ effects = <<>>
    /\ started = {}
    /\ list_output = ""

----------------------------------------------------------------------------
(* restore_database_dump: the whole call is one step, nothing runs beside it *)

Frame == <<Inputs, i, names, processes, returned, started, list_output>>

\* execute_command_with_processes(restore_command, [extract_process] if
\* extract_process else [], input_file=extract_process.stdout if extract_process
\* else None, extra_environment=...)
RestoreCall(command, env, extract, pid, ok) ==
    Launch("execute_command_with_processes", command, FALSE, env, TRUE,
           Dependencies(extract), InputFile(extract), pid, ExitStatus(ok))

\* mutant: ANALYZE is launched whether or not the restore command succeeded
PgRestoreCallsAnalyzeAnyway(restore_command, analyze_command, env, extract, pid, outcome) ==
    <<RestoreCall(restore_command, env, extract, pid, outcome /= "restore fails"),
      Launch("execute_command", analyze_command, FALSE, env, TRUE, <<>>, None,
             pid + 1, ExitStatus(outcome = "ok"))>>

\* postgresql restore_database_dump, lines 287-294: the restore command, and
\* once it has returned the ANALYZE command; a failing command raises
PgRestoreCalls(restore_command, analyze_command, env, extract, pid, outcome) ==
    IF outcome = "restore fails"
    THEN <<RestoreCall(restore_command, env, extract, pid, FALSE)>>
    ELSE <<RestoreCall(restore_command, env, extract, pid, TRUE),
           Launch("execute_command", analyze_command, FALSE, env, TRUE, <<>>, None,
                  pid + 1, ExitStatus(outcome = "ok"))>>

\* postgresql restore_database_dump
PgRestore ==
    /\ op = "restore" /\ engine = "postgresql" /\ pc = "call"
    /\ LET k == FindDatabase(databases, database_name) IN
       IF k = 0
       THEN /\ pc' = "raised" /\ error' = NotFoundError(database_name)
            /\ UNCHANGED <<fs, effects>>
       ELSE LET database == databases[k]
                extra_environment ==
                    Environment(make_extra_environment(database, connection_params))
            IN  IF dry_run
                THEN pc' = "done" /\ UNCHANGED <<error, fs, effects>>
                ELSE \E outcome \in {"ok", "restore fails", "analyze fails"} :
                       /\ effects' = effects \o
                            PgRestoreCalls(
                                PgRestoreCommand(database, connection_params, extract_process),
                                PgAnalyzeCommand(database, connection_params),
                                extra_environment, extract_process, NextPid(effects), outcome)
                       /\ IF outcome = "ok"
                          THEN pc' = "done" /\ UNCHANGED error
                          ELSE pc' = "raised" /\ error' = "CalledProcessError"
                       /\ UNCHANGED fs
    /\ UNCHANGED Frame

\* mongodb restore_database_dump
MongoRestore ==
    /\ op = "restore" /\ engine = "mongodb" /\ pc = "call"
    /\ LET k == FindDatabase(databases, database_name) IN
       IF k = 0
       THEN /\ pc' = "raised" /\ error' = NotFoundError(database_name)
            /\ UNCHANGED <<fs, effects>>
       ELSE IF MongoRestoreRaises(databases[k])
       THEN /\ pc' = "raised" /\ error' = "KeyError: 'schemas'"
            /\ UNCHANGED <<fs, effects>>
       ELSE LET database == databases[k]
                dump_filename == RestoreDumpFilename("mongodb", database)
                restore_command ==
                    build_restore_command(extract_process, database, dump_filename,
                                          connection_params)
            IN  IF dry_run
                THEN pc' = "done" /\ UNCHANGED <<error, fs, effects>>
                ELSE \E ok \in BOOLEAN :
                       /\ effects' = Append(effects,
                              RestoreCall(restore_command, NoEnvironment, extract_process,
                                          NextPid(effects), ok))
                       /\ IF ok
                          THEN pc' = "done" /\ UNCHANGED error
                          ELSE pc' = "raised" /\ error' = "CalledProcessError"
                       /\ UNCHANGED fs
    /\ UNCHANGED Frame

\* mutant: the dry-run return is missing
SqliteRestoreReturnsNever(dry) == FALSE

\* sqlite restore_database_dump, lines 114-115: `if dry_run: return`, ahead
\* of os.remove and of the launch
SqliteRestoreReturnsEarly(dry) == dry

\* the filesystem after os.remove(path); a missing file raises
\* FileNotFoundError, which the call passes over
Removed(f, path) == [q \in DOMAIN f \ {path} |-> f[q]]

\* mutant: the database file is removed after the restore command has run
SqliteRestoreCallsRemoveLast(database_path, extract, pid, ok) ==
    <<Launch("execute_command_with_processes", <<"sqlite3", database_path>>, FALSE,
             NoEnvironment, TRUE, <<extract>>, Stream(extract.i), pid, ExitStatus(ok)),
      FsCall("remove", database_path)>>

\* sqlite restore_database_dump, lines 117-135: os.remove, then
\* execute_command_with_processes(restore_command, [extract_process],
\* input_file=extract_process.stdout)
SqliteRestoreCalls(database_path, extract, pid, ok) ==
    <<FsCall("remove", database_path),
      Launch("execute_command_with_processes", <<"sqlite3", database_path>>, FALSE,
             NoEnvironment, TRUE, <<extract>>, Stream(extract.i), pid, ExitStatus(ok))>>

\* sqlite restore_database_dump
SqliteRestore ==
    /\ op = "restore" /\ engine = "sqlite" /\ pc = "call"
    /\ LET k == FindDatabase(databases, database_name) IN
       IF k = 0
       THEN /\ pc' = "raised" /\ error' = NotFoundError(database_name)
            /\ UNCHANGED <<fs, effects>>
       ELSE LET database == databases[k]
                database_path == SqliteRestorePath(database, connection_params).s
            IN  IF SqliteRestoreReturnsEarly(dry_run)
                THEN pc' = "done" /\ UNCHANGED <<error, fs, effects>>
                ELSE IF extract_process = None
                THEN \* None has no attribute 'stdout': raised after the removal
                     /\ effects' = Append(effects, FsCall("remove", database_path))
                     /\ fs' = Removed(fs, database_path)
                     /\ pc' = "raised" /\ error' = "AttributeError"
                ELSE \E ok \in BOOLEAN :
                       /\ effects' = effects \o
                            SqliteRestoreCalls(database_path, extract_process,
                                               NextPid(effects), ok)
                       /\ IF ok
                          THEN /\ fs' = (database_path :> "file") @@ Removed(fs, database_path)
                               /\ pc' = "done" /\ UNCHANGED error
                          ELSE /\ fs' = Removed(fs, database_path)
                               /\ pc' = "raised" /\ error' = "CalledProcessError"
    /\ UNCHANGED Frame

NextRestore ==
    \/ PgRestore
    \/ MongoRestore
    \/ SqliteRestore

SpecRestore == InitRestore /\ [][NextRestore]_vars

----------------------------------------------------------------------------
(* What the claims speak of, read off the state. *)

\* the value that follows a flag in a command, "" when the flag is not there
RECURSIVE FlagValueFrom(_, _, _)
FlagValueFrom(command, flag, k) ==
    IF k >= Len(command) THEN ""
    ELSE IF command[k] = flag THEN command[k + 1]
    ELSE FlagValueFrom(command, flag, k + 1)

FlagValue(command, flag) == FlagValueFrom(command, flag, 1)

HasToken(command, token) == \E k \in 1..Len(command) : command[k] = token

\* the dump commands launched so far: positions in the log
DumpLaunches ==
    { k \in 1..Len(effects) : op = "dump" /\ effects[k].call = "execute_command" }

\* the artifact a launched dump command writes
DumpTarget(command) ==
    IF HasToken(command, ">") THEN command[Len(command)]
    ELSE IF HasToken(command, "--file") THEN FlagValue(command, "--file")
    ELSE FlagValue(command, "--out")

\* a launched dump command of the directory format
IsDirectoryDump(command) == ~HasToken(command, ">")

\* the loop of dump_databases stands at a database whose artifact path is known
AtDatabase ==
    /\ op = "dump"
    /\ IF engine = "postgresql" THEN pc = "names" /\ names /= <<>>
       ELSE pc = "loop" /\ i <= Len(databases)

\* the artifact path resolved for the database the loop stands at
CurrentArtifact ==
    IF engine = "postgresql" THEN PgDumpFilename(databases[i], Head(names))
    ELSE EntryDumpFilename(engine, databases[i])

\* the step is one of dump_databases itself, not of a process it started
LoopStep == <<pc, i, names>>' /= <<pc, i, names>>

\* paths that were on disk before the pass: one entry's leftover artifact
IsLeftover(path) ==
    \E k \in 1..Len(databases) : path = EntryDumpFilename(engine, databases[k])

----------------------------------------------------------------------------
(* C1. A dry-run dump pass has no side effect. *)

\* C1: for each engine, dump_databases with dry_run true makes no launcher call
\* (neither a dump command nor the PostgreSQL list query), creates no named
\* pipe and no parent directory, and returns an empty sequence of handles.
C1_DryRunDumpHasNoEffect ==
    (op = "dump" /\ dry_run) =>
        /\ effects = <<>>
        /\ \A path \in DOMAIN fs : IsLeftover(path)
        /\ processes = <<>>
        /\ pc /= "raised"
        /\ pc = "done" => returned = PyList(<<>>)

\* a dry run of a PostgreSQL pass over two entries, "all" with a format among
\* them, has returned
C1_Witness ==
    /\ op = "dump" /\ dry_run /\ engine = "postgresql" /\ pc = "done"
    /\ Len(databases) >= 2
    /\ \E k \in 1..Len(databases) :
         databases[k]["name"] = PyStr("all") /\ Has(databases[k], "format")
    /\ \E k \in 1..Len(databases) : databases[k]["name"] = PyStr("app")

----------------------------------------------------------------------------
(* C2. An artifact that exists is skipped. *)

\* C2: for all three engines, when the artifact path resolved for a database
\* exists on disk at the time that database is processed, dump_databases makes
\* no launcher call for it, does not create or overwrite the artifact, and
\* goes on to the next database.
C2_ExistingArtifactIsSkipped ==
    [][ (AtDatabase /\ exists(fs, CurrentArtifact) /\ LoopStep) =>
            /\ effects' = effects
            /\ fs' = fs
            /\ pc' /= "raised" ]_vars

----------------------------------------------------------------------------
(* C3. One pass never dumps twice to one artifact. *)

\* C3: in one non-dry-run pass over a sequence with two entries that resolve
\* to the same artifact path, the dump command is launched for at most one of
\* them, for each engine.
C3_OneLaunchPerArtifact ==
    \A j, k \in DumpLaunches :
        j /= k => DumpTarget(effects[j].command) /= DumpTarget(effects[k].command)

----------------------------------------------------------------------------
(* What the restore claims speak of. *)

\* no entry of the configuration sequence has the requested name
NoEntryNamed ==
    \A k \in 1..Len(databases) : Get(databases[k], "name", None) /= PyStr(database_name)

\* the first entry of the requested name
Requested ==
    databases[CHOOSE k \in 1..Len(databases) :
                /\ Get(databases[k], "name", None) = PyStr(database_name)
                /\ \A j \in 1..(k - 1) : Get(databases[j], "name", None) /= PyStr(database_name)]

RestoreLaunches ==
    { k \in 1..Len(effects) :
        op = "restore" /\ effects[k].call = "execute_command_with_processes" }

AnalyzeLaunches ==
    { k \in 1..Len(effects) : op = "restore" /\ effects[k].call = "execute_command" }

\* the precedence rule as the specification words it: the Connection
\* Parameters value when non-empty, else the restore-specific field when
\* present, else the dump-time field, else nothing
Precedence(param, restore_key, key) ==
    IF Truthy(connection_params[param]) THEN connection_params[param]
    ELSE IF Has(Requested, restore_key) THEN Requested[restore_key]
    ELSE IF Has(Requested, key) THEN Requested[key]
    ELSE None

\* as a command token: "" stands for no flag
PrecedenceToken(param, restore_key, key) ==
    IF Truthy(Precedence(param, restore_key, key))
    THEN Str(Precedence(param, restore_key, key)) ELSE ""

----------------------------------------------------------------------------
(* C4. Restoring a database that is not configured. *)

\* C4: for all three engines, restore_database_dump with a name that matches
\* no entry raises the ValueError naming the database before any side effect:
\* no command is launched, no file is removed.
C4_UnknownDatabaseRaisesFirst ==
    (op = "restore" /\ NoEntryNamed /\ pc /= "call") =>
        /\ pc = "raised"
        /\ error = "ValueError: A database named \"" \o database_name
                   \o "\" could not be found in the configuration"
        /\ effects = <<>>
        /\ fs \in RestoreFilesystems

\* a SQLite restore of an unknown name, not a dry run, with database files on
\* disk, has raised
C4_Witness ==
    /\ op = "restore" /\ engine = "sqlite" /\ NoEntryNamed /\ pc = "raised"
    /\ ~dry_run /\ extract_process /= None
    /\ Len(databases) = 2
    /\ exists(fs, "/var/app.db")

----------------------------------------------------------------------------
(* C5. Precedence of the connection values of a restore. *)

\* C5: in every restore command launched, hostname, port and username
\* (PostgreSQL, MongoDB) and the destination path (SQLite) are the Connection
\* Parameters value when non-empty, otherwise the restore-specific
\* configuration field when present, otherwise the dump-time field.
C5_RestorePrecedence ==
    \A k \in RestoreLaunches :
        IF engine = "sqlite"
        THEN effects[k].command =
                <<"sqlite3", PrecedenceToken("restore_path", "restore_path", "path")>>
        ELSE /\ FlagValue(effects[k].command, "--host")
                  = PrecedenceToken("hostname", "restore_hostname", "hostname")
             /\ FlagValue(effects[k].command, "--port")
                  = PrecedenceToken("port", "restore_port", "port")
             /\ FlagValue(effects[k].command, "--username")
                  = PrecedenceToken("username", "restore_username", "username")

\* a PostgreSQL restore was launched with a hostname in the Connection
\* Parameters and another restore_hostname in the configuration
C5_Witness ==
    /\ op = "restore" /\ engine = "postgresql" /\ pc = "done"
    /\ RestoreLaunches /= {}
    /\ connection_params["hostname"] = PyStr("cdb")
    /\ Get(Requested, "restore_hostname", None) = PyStr("rdb")
    /\ Has(Requested, "hostname")

----------------------------------------------------------------------------
(* C6. Precedence of the password of a restore. *)

\* C6: the PGPASSWORD given to the PostgreSQL restore and ANALYZE commands,
\* and the --password of the MongoDB restore command, is the Connection
\* Parameters password when non-empty, otherwise restore_password when
\* present (also when there is no dump-time password), otherwise the
\* dump-time password.
C6_RestorePasswordPrecedence ==
    \A k \in RestoreLaunches \cup AnalyzeLaunches :
        IF engine = "postgresql"
        THEN LET environment == effects[k].extra_environment.vars
                 password == Precedence("password", "restore_password", "password")
             IN  IF password = None
                 THEN ~Has(environment, "PGPASSWORD")
                 ELSE Has(environment, "PGPASSWORD") /\ environment["PGPASSWORD"] = password
        ELSE engine = "mongodb" =>
                FlagValue(effects[k].command, "--password")
                  = PrecedenceToken("password", "restore_password", "password")

----------------------------------------------------------------------------
(* C7. The ANALYZE pass of a PostgreSQL restore. *)

\* C7: in a non-dry-run PostgreSQL restore the ANALYZE command is launched
\* exactly once, only after the restore command has completed successfully,
\* with the same hostname, port, username and extra environment as the
\* restore command; never when the restore command fails or on a dry run.
C7_AnalyzeFollowsRestore ==
    (op = "restore" /\ engine = "postgresql") =>
        /\ Cardinality(AnalyzeLaunches) <= 1
        /\ dry_run => effects = <<>>
        /\ \A k \in AnalyzeLaunches :
             /\ k - 1 \in RestoreLaunches
             /\ effects[k - 1].status = "ok"
             /\ SubSeq(effects[k].command, Len(effects[k].command) - 1, Len(effects[k].command))
                  = <<"--command", "ANALYZE">>
             /\ effects[k].extra_environment = effects[k - 1].extra_environment
             /\ \A flag \in {"--host", "--port", "--username"} :
                  FlagValue(effects[k].command, flag) = FlagValue(effects[k - 1].command, flag)
        /\ \A k \in RestoreLaunches :
             /\ effects[k].status = "ok" => k + 1 \in AnalyzeLaunches
             /\ effects[k].status = "failed" => AnalyzeLaunches = {}
        /\ (pc = "done" /\ ~dry_run) => Cardinality(AnalyzeLaunches) = 1

\* a PostgreSQL restore with Connection Parameters has run its restore
\* command and then ANALYZE
C7_Witness ==
    /\ op = "restore" /\ engine = "postgresql" /\ pc = "done" /\ ~dry_run
    /\ Cardinality(AnalyzeLaunches) = 1
    /\ connection_params["hostname"] = PyStr("cdb")
    /\ Has(effects[1].extra_environment.vars, "PGPASSWORD")

----------------------------------------------------------------------------
(* C8. The extract process of a restore. *)

\* how the restore command is to be launched: the extract process as the only
\* dependency and its output as input, or neither when there is none
LaunchedOnExtract(e) ==
    IF extract_process /= None
    THEN e.processes = <<extract_process>> /\ e.input_file = Stream(extract_process.i)
    ELSE e.processes = <<>> /\ e.input_file = None

\* C8 as claimed: for each engine, a non-dry-run restore launches the restore
\* command on the extract process when there is one and with no dependency
\* and no input stream when there is none, and does not fail for want of an
\* extract process.
C8_LaunchedOnExtractOrDisk ==
    (op = "restore" /\ ~dry_run /\ ~NoEntryNamed /\ pc /= "call") =>
        /\ \A k \in RestoreLaunches : LaunchedOnExtract(effects[k])
        /\ pc = "done" => RestoreLaunches /= {}
        /\ extract_process = None => error /= "AttributeError"

\* C8 amended: the claim holds for PostgreSQL and MongoDB.  SQLite restores
\* from the extract stream only: with an extract process the command is
\* launched on it; with none the call raises AttributeError once the
\* destination file is removed, and launches nothing.
C8_ExtractOptionalButForSqlite ==
    (op = "restore" /\ ~dry_run /\ ~NoEntryNamed /\ pc /= "call") =>
        /\ \A k \in RestoreLaunches : LaunchedOnExtract(effects[k])
        /\ pc = "done" => RestoreLaunches /= {}
        /\ IF engine = "sqlite"
           THEN /\ extract_process /= None => RestoreLaunches /= {}
                /\ extract_process = None =>
                     /\ pc = "raised" /\ error = "AttributeError"
                     /\ RestoreLaunches = {}
                     /\ \E k \in 1..Len(effects) : effects[k].call = "remove"
           ELSE error /= "AttributeError"

\* a MongoDB restore without an extract process has been launched
C8_Witness ==
    /\ op = "restore" /\ engine = "mongodb" /\ ~dry_run /\ pc = "done"
    /\ extract_process = None
    /\ RestoreLaunches /= {}

----------------------------------------------------------------------------
(* C9. The artifact is prepared before the dump command is launched. *)

\* the call logged right before position k is the making of the parent directory
ParentMadeBefore(k) ==
    /\ k > 1
    /\ effects[k - 1] = FsCall("makedirs", dirname(DumpTarget(effects[k].command)))

\* the calls logged right before position k make the parent directory and then
\* the named pipe, and the artifact path is there
PipeMadeBefore(k) ==
    /\ k > 2
    /\ effects[k - 1] = FsCall("mkfifo", DumpTarget(effects[k].command))
    /\ effects[k - 2] = FsCall("makedirs", dirname(DumpTarget(effects[k].command)))
    /\ exists(fs, DumpTarget(effects[k].command))

\* C9 as claimed: before every dump command launched, in every engine, the
\* parent directory is made for the directory format and a named pipe is made
\* at the artifact path for every other format, every SQLite dump included.
C9_ArtifactPreparedBeforeLaunch ==
    \A k \in DumpLaunches :
        IF IsDirectoryDump(effects[k].command)
        THEN ParentMadeBefore(k)
        ELSE PipeMadeBefore(k)

\* C9 amended: that holds for PostgreSQL and MongoDB.  Before a SQLite dump
\* command only the artifact's parent directory is made; no named pipe is ever
\* made, the artifact is the regular file the command's redirection creates.
C9_ArtifactPreparedButForSqlitePipe ==
    \A k \in DumpLaunches :
        IF engine = "sqlite"
        THEN /\ ParentMadeBefore(k)
             /\ \A j \in 1..Len(effects) : effects[j].call /= "mkfifo"
             /\ exists(fs, DumpTarget(effects[k].command)) =>
                    fs[DumpTarget(effects[k].command)] = "file"
        ELSE IF IsDirectoryDump(effects[k].command)
             THEN ParentMadeBefore(k)
             ELSE PipeMadeBefore(k)

\* a MongoDB pass has launched a streamed dump and a directory dump
C9_Witness ==
    /\ op = "dump" /\ engine = "mongodb" /\ pc = "done"
    /\ \E k \in DumpLaunches : IsDirectoryDump(effects[k].command)
    /\ \E k \in DumpLaunches : ~IsDirectoryDump(effects[k].command)

----------------------------------------------------------------------------
(* C10. Which dumps run to completion, and the handles returned. *)

\* the handles of the dump processes started non-blocking, in launch order
StreamingHandles ==
    LET streaming == SelectSeq(effects, IsStreamingDump)
    IN  [k \in 1..Len(streaming) |-> Popen(streaming[k].pid)]

\* C10: in a non-dry-run pass a directory-format dump is run to completion and
\* contributes no handle, every other dump is started with run_to_completion
\* false; the returned sequence holds one handle per non-directory dump
\* launched, in launch order (empty when all were directory dumps).
C10_HandlesOfStreamingDumps ==
    (op = "dump" /\ ~dry_run) =>
        /\ \A k \in DumpLaunches :
             effects[k].run_to_completion = IsDirectoryDump(effects[k].command)
        /\ processes = StreamingHandles
        /\ pc = "done" => returned = PyList(StreamingHandles)

\* a PostgreSQL pass that launched a directory dump and a streamed dump has
\* returned
C10_Witness ==
    /\ op = "dump" /\ engine = "postgresql" /\ ~dry_run /\ pc = "done"
    /\ \E k \in DumpLaunches : IsDirectoryDump(effects[k].command)
    /\ \E k \in DumpLaunches : ~IsDirectoryDump(effects[k].command)
    /\ Len(returned.l) = 1

----------------------------------------------------------------------------
(* C11. PostgreSQL: no database name resolved. *)

\* the step is the name resolution of a PostgreSQL dump pass for entry i, and
\* the list query, if one was made, printed its rows
ResolutionStep ==
    /\ op = "dump" /\ engine = "postgresql"
    /\ pc = "loop" /\ i <= Len(databases)
    /\ started' = started
    /\ ~(pc' = "raised" /\ error' \in {"CalledProcessError", "IndexError"})

\* the names the resolution of that step yields
ResolvedNames == database_names_to_dump(databases[i], dry_run, list_output')

\* C11: in a PostgreSQL dump pass, when name resolution for a configured
\* database yields the empty sequence, dump_databases raises the ValueError
\* saying no databases could be found if the run is not a dry run; on a dry
\* run it raises nothing and goes on with the next database.
C11_EmptyResolutionRaisesUnlessDryRun ==
    [][ (ResolutionStep /\ ResolvedNames = <<>>) =>
            IF dry_run
            THEN pc' = "loop" /\ i' = i + 1 /\ error' = ""
            ELSE pc' = "raised" /\ error' = NoDatabasesError ]_vars

\* a pass that is not a dry run has raised the error at its second database,
\* after the server listed nothing but the templates
C11_Witness ==
    /\ op = "dump" /\ engine = "postgresql" /\ ~dry_run
    /\ pc = "raised" /\ error = NoDatabasesError
    /\ i = 2
    /\ list_output /= ""

----------------------------------------------------------------------------
(* C12. A dry-run restore has no side effect. *)

\* the restore call is made for a database that is in the configuration
RestoreOfConfigured == op = "restore" /\ ~NoEntryNamed

\* C12: for all three engines, restore_database_dump with dry_run true for a
\* database that is in the configuration launches no restore command and no
\* ANALYZE command and changes nothing on the filesystem; a SQLite dry-run
\* restore leaves the file at the destination path in place.
C12_DryRunRestoreHasNoEffect ==
    [][ (RestoreOfConfigured /\ dry_run) =>
            /\ effects' = <<>>
            /\ fs' = fs ]_vars

\* a SQLite dry-run restore has returned and the database file at its
\* destination path is still there
C12_Witness ==
    /\ RestoreOfConfigured /\ dry_run /\ engine = "sqlite" /\ pc = "done"
    /\ exists(fs, SqliteRestorePath(Requested, connection_params).s)

----------------------------------------------------------------------------
(* C13. SQLite restore: the old database file goes first. *)

\* the position in the log of the SQLite restore command, 0 when none was launched
SqliteLaunchAt ==
    IF RestoreLaunches = {} THEN 0 ELSE CHOOSE k \in RestoreLaunches : TRUE

\* the file the restore is to write, as the precedence rule resolves it
SqliteDestination == PrecedenceToken("restore_path", "restore_path", "path")

\* the call removed the destination right before launching sqlite3 on it
RemovedThenLaunched ==
    /\ Cardinality(RestoreLaunches) = 1
    /\ SqliteLaunchAt = 2
    /\ effects[1] = FsCall("remove", SqliteDestination)
    /\ effects[2].command = <<"sqlite3", SqliteDestination>>

\* the SQLite restore call, not a dry run, has ended
SqliteRestoreEnded ==
    /\ RestoreOfConfigured /\ engine = "sqlite" /\ ~dry_run
    /\ pc \in {"done", "raised"}

\* C13 as claimed: in a non-dry-run SQLite restore, a file at the resolved
\* destination path is removed before the sqlite3 restore command is launched,
\* and when no file is there the removal raises no error and the restore
\* command is launched all the same.
C13_RemovedBeforeRestore ==
    SqliteRestoreEnded =>
        /\ RemovedThenLaunched
        /\ error \notin {"FileNotFoundError", "AttributeError"}

\* C13 amended: that holds of a restore with an extract process.  Without
\* one the destination file is removed all the same, then the call raises
\* AttributeError and launches nothing.
C13_RemovedBeforeRestoreFromExtract ==
    SqliteRestoreEnded =>
        IF Truthy(extract_process)
        THEN /\ RemovedThenLaunched
             /\ error \notin {"FileNotFoundError", "AttributeError"}
             /\ pc = "done" => fs[SqliteDestination] = "file"
        ELSE /\ effects = <<FsCall("remove", SqliteDestination)>>
             /\ ~exists(fs, SqliteDestination)
             /\ pc = "raised" /\ error = "AttributeError"

\* a restore from an extract process has ended well where no file was there before
C13_Witness ==
    /\ SqliteRestoreEnded /\ Truthy(extract_process) /\ pc = "done"
    /\ DOMAIN fs = {SqliteDestination}

----------------------------------------------------------------------------
(* C14. PostgreSQL name resolution that needs no query. *)

\* the step is the name resolution of a PostgreSQL dump pass for entry i
PgResolving ==
    /\ op = "dump" /\ engine = "postgresql"
    /\ pc = "loop" /\ i <= Len(databases)
    /\ started' = started

\* C14: database_names_to_dump returns exactly ("all",) without querying the
\* server when the configured name is "all" and no format is set, whatever
\* the dry-run flag; and exactly (name,) without querying when the configured
\* name is not "all".
C14_NamesResolvedWithoutQuery ==
    [][ (PgResolving /\ ~(databases[i]["name"] = PyStr("all") /\ Has(databases[i], "format"))) =>
            /\ effects' = effects
            /\ pc' = "names"
            /\ names' = <<databases[i]["name"].s>> ]_vars

\* on a dry run, "all" without a format has been resolved to ("all",) and no
\* call was made
C14_Witness ==
    /\ op = "dump" /\ engine = "postgresql" /\ dry_run
    /\ pc = "names" /\ names = <<"all">>
    /\ ~Has(databases[i], "format")
    /\ effects = <<>>

----------------------------------------------------------------------------
(* C15. PostgreSQL name resolution from the server's list. *)

\* the step made the list query and the query ended well
ListQueried ==
    /\ PgResolving
    /\ Len(effects') = Len(effects) + 1
    /\ effects'[Len(effects')].call = "execute_command_and_capture_output"
    /\ effects'[Len(effects')].status = "ok"

NotATemplate(name) == name /= "template0" /\ name /= "template1"

\* the first column of the rows printed, templates taken out, order kept
ListedNames(output) == SelectSeq(FirstColumn(CsvRows(output)), NotATemplate)

\* C15: when name resolution queries the server (name "all", a format set,
\* not a dry run), the names resolved are the first column of the CSV rows
\* with every template0 and template1 taken out and the order of the others
\* kept; rows template0, app, template1, metrics give exactly (app, metrics).
C15_ListedNamesWithoutTemplates ==
    [][ ListQueried =>
            /\ databases[i]["name"] = PyStr("all") /\ Has(databases[i], "format") /\ ~dry_run
            /\ ListedNames(list_output') /= <<>> =>
                   pc' = "names" /\ names' = ListedNames(list_output')
            /\ list_output' =
                 "template0,postgres,UTF8\napp,postgres,UTF8\ntemplate1,postgres,UTF8\nmetrics,u,UTF8"
               => names' = <<"app", "metrics">> ]_vars

\* the server listed two databases between the templates and both were resolved
C15_Witness ==
    /\ op = "dump" /\ engine = "postgresql" /\ ~dry_run
    /\ pc = "names" /\ names = <<"app", "metrics">>
    /\ Len(CsvRows(list_output)) = 4

----------------------------------------------------------------------------
(* C16. PostgreSQL dump command: how the destination is named. *)

\* how often a token is in a command
Occurrences(command, token) == Cardinality({k \in 1..Len(command) : command[k] = token})

\* the command ends with the shell redirection to the path
EndsWithRedirectTo(command, path) ==
    /\ Len(command) >= 2
    /\ command[Len(command) - 1] = ">"
    /\ command[Len(command)] = path

\* the format in effect for one dump: the configured one, else custom for a
\* named database and none for "all"
EffectiveFormat(database, name) ==
    IF Has(database, "format") THEN database["format"]
    ELSE IF name = "all" THEN None ELSE PyStr("custom")

\* the command names the path as its destination in exactly one way, by
\* --file for the directory format and by redirection for every other
NamesDestinationOnce(command, format, path) ==
    /\ IF format = PyStr("directory")
       THEN /\ Occurrences(command, "--file") = 1
            /\ FlagValue(command, "--file") = path
            /\ ~HasToken(command, ">")
       ELSE /\ EndsWithRedirectTo(command, path)
            /\ Occurrences(command, ">") = 1
            /\ ~HasToken(command, "--file")
    /\ HasToken(command, "--format") <=> Truthy(format)
    /\ Truthy(format) => FlagValue(command, "--format") = format.s

\* C16: every PostgreSQL dump command built by dump_databases names its
\* destination in exactly one way: '--file <dump_filename>' and no redirection
\* for the directory format, a final '> <dump_filename>' and no '--file' for
\* every other format, the unset format of "all" included; '--format' is left
\* out exactly when the format in effect is unset.  It is so of the command
\* built for the name the loop stands at and of every command launched.
C16_DestinationNamedOnce ==
    (op = "dump" /\ engine = "postgresql") =>
        /\ (pc = "names" /\ names /= <<>>) =>
              NamesDestinationOnce(PgDumpCommand(databases[i], Head(names)),
                                   EffectiveFormat(databases[i], Head(names)),
                                   CurrentArtifact)
        /\ \A k \in DumpLaunches :
              HasToken(effects[k].command, "--file") /= HasToken(effects[k].command, ">")

\* a pass has launched pg_dumpall with no format and a dump of the directory format
C16_Witness ==
    /\ op = "dump" /\ engine = "postgresql"
    /\ \E k \in DumpLaunches :
         /\ effects[k].command[1] = "pg_dumpall"
         /\ ~HasToken(effects[k].command, "--format")
    /\ \E k \in DumpLaunches : FlagValue(effects[k].command, "--format") = "directory"

----------------------------------------------------------------------------
(* C17. The MongoDB dump command. *)

\* where a token stands in a command, 0 when it is not there
PositionOf(command, token) ==
    IF HasToken(command, token)
    THEN CHOOSE k \in 1..Len(command) :
            command[k] = token /\ \A j \in 1..(k - 1) : command[j] /= token
    ELSE 0

\* the connection keys of a MongoDB entry and their flags
MongoConnectionFlags ==
    {<<"hostname", "--host">>, <<"port", "--port">>, <<"username", "--username">>,
     <<"password", "--password">>, <<"authentication_database", "--authenticationDatabase">>}

\* the command is mongodump, --out for the directory format, the configured
\* connection flags, --db unless "all", the options, --archive and the
\* redirection for the other formats, in that order and nothing else
IsMongoDumpCommand(command, database, path) ==
    LET directory == Get(database, "format", None) = PyStr("directory")
        named == database["name"] /= PyStr("all")
        flags == {kf \in MongoConnectionFlags : Has(database, kf[1])}
        options == IF Has(database, "options") THEN Split(database["options"].s) ELSE <<>>
        first == IF directory THEN 4 ELSE 2
        db == first + 2 * Cardinality(flags)
        rest == db + (IF named THEN 2 ELSE 0)
    IN  /\ command[1] = "mongodump"
        /\ IF directory
           THEN SubSeq(command, 2, 3) = <<"--out", path>>
           ELSE ~HasToken(command, "--out")
        /\ \A kf \in MongoConnectionFlags :
              IF kf \in flags
              THEN /\ PositionOf(command, kf[2]) \in first..(db - 1)
                   /\ FlagValue(command, kf[2]) = Str(database[kf[1]])
              ELSE ~HasToken(command, kf[2])
        /\ IF named
           THEN SubSeq(command, db, db + 1) = <<"--db", database["name"].s>>
           ELSE ~HasToken(command, "--db")
        /\ SubSeq(command, rest, rest + Len(options) - 1) = options
        /\ IF directory
           THEN /\ Len(command) = rest + Len(options) - 1
                /\ ~HasToken(command, "--archive") /\ ~HasToken(command, ">")
           ELSE /\ Len(command) = rest + Len(options) + 2
                /\ SubSeq(command, rest + Len(options), Len(command)) = <<"--archive", ">", path>>

\* the MongoDB pass stands at an entry it is to build the dump command of
MongoBuilding ==
    /\ op = "dump" /\ engine = "mongodb" /\ ~dry_run
    /\ pc = "loop" /\ i <= Len(databases)

BuiltMongoCommand ==
    build_dump_command(databases[i], CurrentArtifact, MongoDumpFormat(databases[i]))

\* C17: the MongoDB dump command built for a database is 'mongodump', then
\* '--out <path>' for the directory format, then the configured connection
\* flags, then '--db <name>' exactly when the name is not "all", then the
\* options, and at the end '--archive > <dump_filename>' exactly when the
\* format is not directory; {name: app, format: directory} gives exactly
\* mongodump --out <path> --db app.
C17_MongoDumpCommand ==
    MongoBuilding =>
        /\ IsMongoDumpCommand(BuiltMongoCommand, databases[i], CurrentArtifact)
        /\ DOMAIN databases[i] = {"name", "format"}
             /\ databases[i]["name"] = PyStr("app")
             /\ databases[i]["format"] = PyStr("directory")
           => BuiltMongoCommand =
                <<"mongodump", "--out", "~/.borgmatic/mongodb_databases/app", "--db", "app">>

\* the pass stands at {name: app, format: directory} after a fully configured
\* "all" was started as an archive
C17_Witness ==
    /\ MongoBuilding /\ i = 2
    /\ DOMAIN databases[2] = {"name", "format"}
    /\ databases[2]["name"] = PyStr("app")
    /\ databases[1]["name"] = PyStr("all")
    /\ Has(databases[1], "authentication_database")
    /\ \E k \in DumpLaunches : HasToken(effects[k].command, "--archive")

----------------------------------------------------------------------------
(* C18. A restore command names the dump on disk only without an extract. *)

\* the on-disk artifact of the requested database: the hook's dump
\* directory, the hostname if one is configured, the name
ArtifactOnDisk ==
    "~/.borgmatic/" \o engine \o "_databases/"
    \o (IF Has(Requested, "hostname") THEN Requested["hostname"].s \o "/" ELSE "")
    \o Requested["name"].s

\* the restore command the call builds, when it gets to build one
BuiltRestoreCommand ==
    IF engine = "postgresql"
    THEN PgRestoreCommand(Requested, connection_params, extract_process)
    ELSE build_restore_command(extract_process, Requested, MongoDumpFilename(Requested),
                               connection_params)

\* a PostgreSQL or MongoDB restore call for a configured database whose
\* command can be built
RestoreCommandBuilt ==
    /\ RestoreOfConfigured
    /\ engine \in {"postgresql", "mongodb"}
    /\ engine = "mongodb" => Has(Requested, "schemas")

RefersToDisk(command) ==
    IF engine = "postgresql"
    THEN HasToken(command, ArtifactOnDisk)
    ELSE HasToken(command, "--dir") /\ FlagValue(command, "--dir") = ArtifactOnDisk

\* C18: a built restore command refers to the on-disk dump artifact exactly
\* when no extract stream is active: the PostgreSQL command holds the dump
\* filename as an argument iff extract_process is absent, the MongoDB command
\* holds '--dir <dump_filename>' iff it is absent and '--archive' iff it is
\* present.  It is so of the command built and of the one launched.
C18_DumpPathIffNoExtract ==
    RestoreCommandBuilt =>
        /\ RefersToDisk(BuiltRestoreCommand) <=> ~Truthy(extract_process)
        /\ HasToken(BuiltRestoreCommand, ArtifactOnDisk) <=> ~Truthy(extract_process)
        /\ engine = "mongodb" =>
              (HasToken(BuiltRestoreCommand, "--archive") <=> Truthy(extract_process))
        /\ \A k \in RestoreLaunches : effects[k].command = BuiltRestoreCommand

\* a MongoDB restore from disk and not from an extract stream has run
C18_Witness ==
    /\ RestoreCommandBuilt /\ engine = "mongodb" /\ ~Truthy(extract_process)
    /\ pc = "done"
    /\ \E k \in RestoreLaunches : HasToken(effects[k].command, "--dir")

----------------------------------------------------------------------------
(* C19. PostgreSQL: the dump processes of a pass that fails. *)

\* the handles the caller got back
ReturnedHandles == {returned.l[k] : k \in 1..Len(returned.l)}

\* C19: when a PostgreSQL dump pass that is not a dry run raises the 'cannot
\* find any databases to dump' error at some database, no streaming dump
\* process started for an earlier database of the pass is left running with
\* its handle not returned to the caller, and no named pipe of such a
\* process is left behind.
C19_NoOrphanedDumpProcess ==
    (op = "dump" /\ engine = "postgresql" /\ pc = "raised" /\ error = NoDatabasesError) =>
        \A k \in 1..Len(effects) :
            IsStreamingDump(effects[k]) =>
                /\ Popen(effects[k].pid) \in ReturnedHandles
                /\ ~exists(fs, RedirectTarget(effects[k].command))

----------------------------------------------------------------------------
(* C20. The MongoDB restore command and the schemas. *)

\* the schemas configured for the requested database; none when the field is
\* absent or empty
ConfiguredSchemas ==
    IF Has(Requested, "schemas") /\ Truthy(Requested["schemas"])
    THEN Requested["schemas"].l ELSE <<>>

\* the values given with --nsInclude in a command, in order
NsIncluded(command) ==
    LET at == {k \in 1..(Len(command) - 1) : command[k] = "--nsInclude"}
        Nth[n \in 0..Cardinality(at)] ==
            IF n = 0 THEN 0 ELSE CHOOSE k \in at : k > Nth[n - 1] /\ \A j \in at : j > Nth[n - 1] => k <= j
    IN  [n \in 1..Cardinality(at) |-> command[Nth[n] + 1]]

\* C20: the MongoDB restore command builder returns a command for every
\* database configuration that has a name, whether or not the optional
\* fields are there: an absent 'schemas' behaves like an empty one, and the
\* command holds '--nsInclude <schema>' once per configured schema, in order,
\* and no '--nsInclude' otherwise.
C20_MongoRestoreCommandBuilt ==
    (RestoreOfConfigured /\ engine = "mongodb" /\ pc /= "call") =>
        /\ error /= "KeyError: 'schemas'"
        /\ ~dry_run => RestoreLaunches /= {}
        /\ \A k \in RestoreLaunches : NsIncluded(effects[k].command) = ConfiguredSchemas

----------------------------------------------------------------------------
(* C21. Restore looks for the dump where the dump pass puts it. *)

\* the entry with restore-specific connection fields added to it
WithRestoreOverrides(database, present) ==
    IF present
    THEN Field("restore_hostname", PyStr("rdb")) @@ Field("restore_port", PyInt(5433))
         @@ Field("restore_username", PyStr("ru")) @@ database
    ELSE database

\* C21: for PostgreSQL and MongoDB, the dump artifact path that
\* restore_database_dump computes for a configured database is the path
\* dump_databases computes for that same configuration entry, from the
\* entry's name and dump-time hostname, and it is the same with and without
\* restore_hostname / restore_port / restore_username (the Connection
\* Parameters are no input of it).
C21_RestorePathIsDumpPath ==
    (AtDatabase /\ engine \in {"postgresql", "mongodb"}) =>
        \A overridden \in BOOLEAN :
            RestoreDumpFilename(engine, WithRestoreOverrides(databases[i], overridden))
                = CurrentArtifact

====
